---- MODULE Spec2Model ----
(***************************************************************************)
(* The escrow job market contract DecentralizedJobMarket                   *)
(* (contracts/hello-world/src/lib.rs) as a state machine.                  *)
(*                                                                         *)
(* The state is the contract's storage (reentrancy flag, token id, job     *)
(* counter, job records, arbitrator registry), the balances kept by the    *)
(* payment token, and the ledger time.  One top-level invocation is one    *)
(* atomic step: the host commits the storage writes of a call that         *)
(* returns and rolls back every write of a call that panics, so a failed   *)
(* call leaves the state as it was.  Each handler is an operator from the  *)
(* storage before the call to an outcome (error code, storage after,       *)
(* transfers made, nested calls attempted); the actions commit outcomes.   *)
(***************************************************************************)
EXTENDS Integers, Sequences, FiniteSets, TLC

(***************************************************************************)
(* Bounds of the model.                                                    *)
(***************************************************************************)
MaxJobs == 2
MaxMilestones == 2
MaxTime == 1
MaxDeadline == 0
MaxDisputes == 1
InitBalance == 75

(***************************************************************************)
(* Program constants.                                                      *)
(***************************************************************************)
ARB_FEE == 5
CancelFeeDivisor == 10
InitialReputation == 80
InitialCases == 0

(***************************************************************************)
(* Values.                                                                 *)
(***************************************************************************)
Address == {"alice", "bob", "carol"}
ClientInput == {"alice"}
TalentInput == {"bob"}
ArbitratorInput == {"carol"}
CONTRACT == "contract"
Holder == Address \cup {CONTRACT}
NoAddress == "none"
NoTime == -1
NoIdx == -1
Zero32 == "zero32"
Data32 == "work"
Title32 == "title"
Desc32 == "desc"
Spec32 == "law"
TokenUnset == "unset"
TokenAsset == "asset"

AmountInput == {-25, 0, 25}
AmountInputWide == {-25, 0, 25, 50}
DeadlineInput == 0..MaxDeadline
IdxInput == 0..MaxMilestones
JobIdInput == 1..MaxJobs

Milestone(description, amount, deadline) ==
    [description |-> description, amount |-> amount, state |-> "Pending",
     submission_data |-> Zero32, deadline |-> deadline, submitted_at |-> NoTime]

(***************************************************************************)
(* Calls.  A call names the operation and its arguments; cb is the call    *)
(* the payment token makes back into the contract during a transfer of     *)
(* this call (NoCall when it makes none).                                  *)
(***************************************************************************)
NoCall == [op |-> "none"]

Call(op, caller, job_id, idx, decision, other, amounts, deadlines, ndesc, cb) ==
    [op |-> op, caller |-> caller, job_id |-> job_id, idx |-> idx,
     decision |-> decision, other |-> other, amounts |-> amounts,
     deadlines |-> deadlines, ndesc |-> ndesc, cb |-> cb]

JobCall(op, caller, job_id, idx, decision, other, cb) ==
    Call(op, caller, job_id, idx, decision, other, <<>>, <<>>, 0, cb)

(***************************************************************************)
(* Outcomes.  Ok carries the storage after the call; a failure carries the *)
(* storage the call started from (the host rolls the call back).           *)
(***************************************************************************)
Ok(e, ret) == [err |-> "Ok", env |-> e, ret |-> ret]
Fail(e0, err) == [err |-> err, env |-> e0, ret |-> 0]

RECURSIVE Sum(_)
Sum(s) == IF s = <<>> THEN 0 ELSE Head(s) + Sum(Tail(s))

RECURSIVE Invoke(_, _, _)

(***************************************************************************)
(* Storage accessors.                                                      *)
(***************************************************************************)
job_key(job_id) ==
    << (job_id \div 16777216) % 256, (job_id \div 65536) % 256,
       (job_id \div 256) % 256, job_id % 256 >>

has_job(e, job_id) == job_key(job_id) \in DOMAIN e.JOBS

get_job(e, job_id) == e.JOBS[job_key(job_id)]

update_job(e, job_id, job) ==
    [e EXCEPT !.JOBS = [k \in (DOMAIN e.JOBS) \cup {job_key(job_id)} |->
                          IF k = job_key(job_id) THEN job ELSE e.JOBS[k]]]

(* Variant of save_job that stores the job under the next id but does not  *)
(* write the incremented counter back.                                     *)
save_job_counter_kept(e, job) ==
    LET count == e.JOB_CNT + 1
    IN  [env |-> update_job(e, count, job), ret |-> count]

save_job(e, job) ==
    LET count == e.JOB_CNT + 1
    IN  [env |-> update_job([e EXCEPT !.JOB_CNT = count], count, job),
         ret |-> count]

has_token_id(e) == e.TOKEN_ID # TokenUnset

get_arbitrators(e) == e.ARB_REG

is_arbitrator(e, address) == address \in DOMAIN get_arbitrators(e)

(* A guard that tests the flag and never sets it. *)
check_reentrancy_never_set(e) ==
    IF e.RE_ENTRY THEN Fail(e, "Reentrancy")
    ELSE Ok(e, 0)

check_reentrancy(e) ==
    IF e.RE_ENTRY THEN Fail(e, "Reentrancy")
    ELSE Ok([e EXCEPT !.RE_ENTRY = TRUE], 0)

(* A completion test satisfied by one Paid milestone. *)
SomePaid(job) ==
    \E i \in 1..Len(job.milestones) : job.milestones[i].state = "Paid"

AllPaid(job) ==
    \A i \in 1..Len(job.milestones) : job.milestones[i].state = "Paid"

(***************************************************************************)
(* The payment token.  A transfer fails (and with it the whole call) when  *)
(* the amount is negative or the sender's balance is too small.  During    *)
(* the transfer the token may call back into the contract: the nested      *)
(* call sees the storage as it is at that point; what it writes stays when *)
(* it returns and is dropped when it fails, and the transfer goes on.      *)
(***************************************************************************)
transfer(e, t, from, to, amount, tag, cb) ==
    IF amount < 0 \/ e.balance[from] < amount THEN Fail(e, "TransferFailed")
    ELSE
      LET moved == [e EXCEPT !.balance =
                        [h \in Holder |->
                            e.balance[h] + (IF h = to THEN amount ELSE 0)
                                         - (IF h = from THEN amount ELSE 0)],
                      !.xfers = Append(@, [from |-> from, to |-> to,
                                           amount |-> amount, tag |-> tag])]
      IN  IF cb.op = "none" THEN Ok(moved, 0)
          ELSE LET n == Invoke(moved, t, cb)
                   seen == [call |-> cb, err |-> n.err,
                            changed |-> (n.env.JOBS # moved.JOBS
                                         \/ n.env.balance # moved.balance
                                         \/ n.env.ARB_REG # moved.ARB_REG
                                         \/ n.env.JOB_CNT # moved.JOB_CNT)]
               IN  Ok([n.env EXCEPT !.nested = Append(moved.nested, seen)], 0)

Tag(kind, job_id, idx) == [kind |-> kind, job_id |-> job_id, idx |-> idx]

(***************************************************************************)
(* initialize: sets the payment token once.                                *)
(***************************************************************************)
initialize(e0, t, token_id) ==
    IF has_token_id(e0) THEN Fail(e0, "InvalidState")
    ELSE Ok([e0 EXCEPT !.TOKEN_ID = token_id], 0)

(***************************************************************************)
(* create_job                                                              *)
(***************************************************************************)
create_job(e0, t, client, ndesc, amounts, deadlines) ==
    LET g == check_reentrancy(e0) IN
    IF g.err # "Ok" THEN Fail(e0, g.err)
    ELSE IF ndesc # Len(amounts) \/ Len(amounts) # Len(deadlines)
      THEN Fail(e0, "InvalidInput")
    ELSE LET total_value == Sum(amounts) IN
    IF total_value <= 0 THEN Fail(e0, "AmountRequired")
    ELSE IF \E i \in 1..ndesc : amounts[i] <= 0 THEN Fail(e0, "AmountRequired")
    ELSE
      LET milestones == [i \in 1..ndesc |->
                            Milestone(Desc32, amounts[i], deadlines[i])]
          job == [client |-> client,
                  talent |-> NoAddress,
                  title |-> Title32,
                  total_value |-> total_value,
                  amount_paid |-> 0,
                  state |-> "Created",
                  milestones |-> milestones,
                  escrow_balance |-> 0,
                  created_at |-> t,
                  dispute_raised_by |-> NoAddress,
                  selected_arbitrator |-> NoAddress,
                  cancellation_fee |-> total_value \div CancelFeeDivisor]
          saved == save_job(g.env, job)
      IN  Ok(saved.env, saved.ret)

(***************************************************************************)
(* fund_job                                                                *)
(***************************************************************************)
(* fund_job without the test that the job is Created. *)
fund_job_any_state(e0, t, client, job_id, cb) ==
    LET g == check_reentrancy(e0) IN
    IF g.err # "Ok" THEN Fail(e0, g.err)
    ELSE IF ~has_job(g.env, job_id) THEN Fail(e0, "JobNotFound")
    ELSE LET job == get_job(g.env, job_id) IN
    IF job.client # client THEN Fail(e0, "Unauthorized")
    ELSE IF ~has_token_id(g.env) THEN Fail(e0, "TokenNotSet")
    ELSE LET x == transfer(g.env, t, client, CONTRACT, job.total_value,
                           Tag("fund", job_id, NoIdx), cb) IN
    IF x.err # "Ok" THEN Fail(e0, x.err)
    ELSE
      LET funded == [job EXCEPT !.escrow_balance = job.total_value,
                                !.state = "Funded"]
      IN  Ok(update_job(x.env, job_id, funded), 0)

fund_job(e0, t, client, job_id, cb) ==
    LET g == check_reentrancy(e0) IN
    IF g.err # "Ok" THEN Fail(e0, g.err)
    ELSE IF ~has_job(g.env, job_id) THEN Fail(e0, "JobNotFound")
    ELSE LET job == get_job(g.env, job_id) IN
    IF job.client # client THEN Fail(e0, "Unauthorized")
    ELSE IF job.state # "Created" THEN Fail(e0, "InvalidState")
    ELSE IF ~has_token_id(g.env) THEN Fail(e0, "TokenNotSet")
    ELSE LET x == transfer(g.env, t, client, CONTRACT, job.total_value,
                           Tag("fund", job_id, NoIdx), cb) IN
    IF x.err # "Ok" THEN Fail(e0, x.err)
    ELSE
      LET funded == [job EXCEPT !.escrow_balance = job.total_value,
                                !.state = "Funded"]
      IN  Ok(update_job(x.env, job_id, funded), 0)

(***************************************************************************)
(* select_talent                                                           *)
(***************************************************************************)
select_talent(e0, t, client, job_id, talent) ==
    LET g == check_reentrancy(e0) IN
    IF g.err # "Ok" THEN Fail(e0, g.err)
    ELSE IF ~has_job(g.env, job_id) THEN Fail(e0, "JobNotFound")
    ELSE LET job == get_job(g.env, job_id) IN
    IF job.client # client THEN Fail(e0, "Unauthorized")
    ELSE IF job.state # "Funded" THEN Fail(e0, "InvalidState")
    ELSE IF job.talent # NoAddress THEN Fail(e0, "TalentExists")
    ELSE
      LET hired == [job EXCEPT !.talent = talent, !.state = "Active"]
      IN  Ok(update_job(g.env, job_id, hired), 0)

(***************************************************************************)
(* submit_milestone                                                        *)
(***************************************************************************)
(* submit_milestone that refuses a submission at the deadline itself. *)
submit_milestone_before_deadline(e0, t, talent, job_id, milestone_idx, data) ==
    LET g == check_reentrancy(e0) IN
    IF g.err # "Ok" THEN Fail(e0, g.err)
    ELSE IF ~has_job(g.env, job_id) THEN Fail(e0, "JobNotFound")
    ELSE LET job == get_job(g.env, job_id) IN
    IF job.state # "Active" THEN Fail(e0, "InvalidState")
    ELSE IF job.talent # talent THEN Fail(e0, "Unauthorized")
    ELSE IF milestone_idx >= Len(job.milestones) THEN Fail(e0, "InvalidIndex")
    ELSE LET milestone == job.milestones[milestone_idx + 1] IN
    IF milestone.state # "Pending" THEN Fail(e0, "MilestonePending")
    ELSE IF t >= milestone.deadline THEN Fail(e0, "DeadlinePassed")
    ELSE
      LET m2 == [milestone EXCEPT !.state = "Submitted",
                                  !.submission_data = data,
                                  !.submitted_at = t]
          j2 == [job EXCEPT !.milestones[milestone_idx + 1] = m2]
      IN  Ok(update_job(g.env, job_id, j2), 0)

submit_milestone(e0, t, talent, job_id, milestone_idx, data) ==
    LET g == check_reentrancy(e0) IN
    IF g.err # "Ok" THEN Fail(e0, g.err)
    ELSE IF ~has_job(g.env, job_id) THEN Fail(e0, "JobNotFound")
    ELSE LET job == get_job(g.env, job_id) IN
    IF job.state # "Active" THEN Fail(e0, "InvalidState")
    ELSE IF job.talent # talent THEN Fail(e0, "Unauthorized")
    ELSE IF milestone_idx >= Len(job.milestones) THEN Fail(e0, "InvalidIndex")
    ELSE LET milestone == job.milestones[milestone_idx + 1] IN
    IF milestone.state # "Pending" THEN Fail(e0, "MilestonePending")
    ELSE IF t > milestone.deadline THEN Fail(e0, "DeadlinePassed")
    ELSE
      LET m2 == [milestone EXCEPT !.state = "Submitted",
                                  !.submission_data = data,
                                  !.submitted_at = t]
          j2 == [job EXCEPT !.milestones[milestone_idx + 1] = m2]
      IN  Ok(update_job(g.env, job_id, j2), 0)

(***************************************************************************)
(* approve_milestone                                                       *)
(***************************************************************************)
approve_milestone(e0, t, client, job_id, milestone_idx, cb) ==
    LET g == check_reentrancy(e0) IN
    IF g.err # "Ok" THEN Fail(e0, g.err)
    ELSE IF ~has_job(g.env, job_id) THEN Fail(e0, "JobNotFound")
    ELSE LET job == get_job(g.env, job_id) IN
    IF job.client # client THEN Fail(e0, "Unauthorized")
    ELSE IF job.state # "Active" THEN Fail(e0, "InvalidState")
    ELSE IF milestone_idx >= Len(job.milestones) THEN Fail(e0, "InvalidIndex")
    ELSE LET milestone == job.milestones[milestone_idx + 1] IN
    IF milestone.state # "Submitted" THEN Fail(e0, "NotSubmitted")
    ELSE IF ~has_token_id(g.env) THEN Fail(e0, "TokenNotSet")
    ELSE IF job.talent = NoAddress THEN Fail(e0, "UnwrapNone")
    ELSE LET x == transfer(g.env, t, CONTRACT, job.talent, milestone.amount,
                           Tag("milestone", job_id, milestone_idx), cb) IN
    IF x.err # "Ok" THEN Fail(e0, x.err)
    ELSE
      LET m2 == [milestone EXCEPT !.state = "Paid"]
          j2 == [job EXCEPT !.milestones[milestone_idx + 1] = m2,
                            !.amount_paid = @ + milestone.amount,
                            !.escrow_balance = @ - milestone.amount]
          j3 == IF AllPaid(j2) THEN [j2 EXCEPT !.state = "Completed"] ELSE j2
      IN  Ok(update_job(x.env, job_id, j3), 0)

(***************************************************************************)
(* raise_dispute                                                           *)
(***************************************************************************)
raise_dispute(e0, t, caller, job_id, milestone_idx, arbitrator) ==
    LET g == check_reentrancy(e0) IN
    IF g.err # "Ok" THEN Fail(e0, g.err)
    ELSE IF ~has_job(g.env, job_id) THEN Fail(e0, "JobNotFound")
    ELSE LET job == get_job(g.env, job_id) IN
    IF job.state = "Disputed" THEN Fail(e0, "ArbitrationPending")
    ELSE IF job.state # "Active" THEN Fail(e0, "InvalidState")
    ELSE LET is_client == job.client = caller
             is_talent == job.talent = caller IN
    IF ~is_client /\ ~is_talent THEN Fail(e0, "Unauthorized")
    ELSE IF ~is_arbitrator(g.env, arbitrator) THEN Fail(e0, "NotArbitrator")
    ELSE IF milestone_idx # NoIdx /\ milestone_idx >= Len(job.milestones)
      THEN Fail(e0, "InvalidIndex")
    ELSE IF milestone_idx # NoIdx
            /\ job.milestones[milestone_idx + 1].state # "Submitted"
      THEN Fail(e0, "NotSubmitted")
    ELSE
      LET j2 == [job EXCEPT !.state = "Disputed",
                            !.dispute_raised_by = caller,
                            !.selected_arbitrator = arbitrator]
      IN  Ok(update_job(g.env, job_id, j2), 0)

(***************************************************************************)
(* Internal helpers of resolve_dispute.  They work on the job record the   *)
(* handler has loaded (job) and on the storage and token (env): the        *)
(* result carries both.                                                    *)
(***************************************************************************)
Held(e, job) == [err |-> "Ok", env |-> e, job |-> job]
Dropped(e, job, err) == [err |-> err, env |-> e, job |-> job]

(* approve_milestone_internal without the decrease of escrow_balance. *)
approve_milestone_internal_escrow_kept(e, t, job, job_id, idx, cb) ==
    IF idx >= Len(job.milestones) THEN Dropped(e, job, "InvalidIndex")
    ELSE LET milestone == job.milestones[idx + 1] IN
    IF ~has_token_id(e) THEN Dropped(e, job, "TokenNotSet")
    ELSE IF job.talent = NoAddress THEN Dropped(e, job, "UnwrapNone")
    ELSE LET x == transfer(e, t, CONTRACT, job.talent, milestone.amount,
                           Tag("milestone", job_id, idx), cb) IN
    IF x.err # "Ok" THEN Dropped(e, job, x.err)
    ELSE
      LET m2 == [milestone EXCEPT !.state = "Paid"]
      IN  Held(x.env, [job EXCEPT !.milestones[idx + 1] = m2,
                                  !.amount_paid = @ + milestone.amount])

approve_milestone_internal(e, t, job, job_id, idx, cb) ==
    IF idx >= Len(job.milestones) THEN Dropped(e, job, "InvalidIndex")
    ELSE LET milestone == job.milestones[idx + 1] IN
    IF ~has_token_id(e) THEN Dropped(e, job, "TokenNotSet")
    ELSE IF job.talent = NoAddress THEN Dropped(e, job, "UnwrapNone")
    ELSE LET x == transfer(e, t, CONTRACT, job.talent, milestone.amount,
                           Tag("milestone", job_id, idx), cb) IN
    IF x.err # "Ok" THEN Dropped(e, job, x.err)
    ELSE
      LET m2 == [milestone EXCEPT !.state = "Paid"]
      IN  Held(x.env, [job EXCEPT !.milestones[idx + 1] = m2,
                                  !.amount_paid = @ + milestone.amount,
                                  !.escrow_balance = @ - milestone.amount])

RECURSIVE approve_all_from(_, _, _, _, _, _)
approve_all_next(r, t, job_id, i, cb) ==
    IF r.err # "Ok" THEN r
    ELSE approve_all_from(r.env, t, r.job, job_id, i + 1, cb)

approve_all_from(e, t, job, job_id, i, cb) ==
    IF i >= Len(job.milestones) THEN Held(e, job)
    ELSE IF job.milestones[i + 1].state = "Submitted"
      THEN approve_all_next(
               approve_milestone_internal(e, t, job, job_id, i, cb),
               t, job_id, i, cb)
    ELSE approve_all_from(e, t, job, job_id, i + 1, cb)

(* Variant of approve_all_milestones whose loop starts at the second       *)
(* milestone.                                                              *)
approve_all_milestones_from_second(e, t, job, job_id, cb) ==
    approve_all_from(e, t, job, job_id, 1, cb)

approve_all_milestones(e, t, job, job_id, cb) ==
    approve_all_from(e, t, job, job_id, 0, cb)

reject_milestone(e, job, idx) ==
    IF idx >= Len(job.milestones) THEN Dropped(e, job, "InvalidIndex")
    ELSE Held(e, [job EXCEPT !.milestones[idx + 1].state = "Rejected",
                             !.milestones[idx + 1].submission_data = Zero32])

reject_all_milestones(e, job) ==
    Held(e, [job EXCEPT !.milestones =
               [i \in 1..Len(job.milestones) |->
                  IF job.milestones[i].state = "Submitted"
                  THEN [job.milestones[i] EXCEPT !.state = "Rejected",
                                                 !.submission_data = Zero32]
                  ELSE job.milestones[i]]])

(***************************************************************************)
(* resolve_dispute                                                         *)
(***************************************************************************)
resolve_decide(e, t, job, job_id, milestone_idx, decision, cb) ==
    IF decision
    THEN IF milestone_idx # NoIdx
         THEN approve_milestone_internal(e, t, job, job_id, milestone_idx, cb)
         ELSE approve_all_milestones(e, t, job, job_id, cb)
    ELSE IF milestone_idx # NoIdx
         THEN reject_milestone(e, job, milestone_idx)
         ELSE reject_all_milestones(e, job)

(* resolve_update that leaves the dispute fields as they are. *)
resolve_update_dispute_kept(e0, d, job_id, fee_amount) ==
    IF d.err # "Ok" THEN Fail(e0, d.err)
    ELSE
      LET j2 == [d.job EXCEPT !.escrow_balance = @ - fee_amount,
                              !.state = IF AllPaid(d.job) THEN "Completed"
                                        ELSE "Active"]
      IN  Ok(update_job(d.env, job_id, j2), 0)

(* Variant of resolve_update that always returns the job to Active. *)
resolve_update_always_active(e0, d, job_id, fee_amount) ==
    IF d.err # "Ok" THEN Fail(e0, d.err)
    ELSE
      LET j2 == [d.job EXCEPT !.escrow_balance = @ - fee_amount,
                              !.state = "Active",
                              !.dispute_raised_by = NoAddress,
                              !.selected_arbitrator = NoAddress]
      IN  Ok(update_job(d.env, job_id, j2), 0)

resolve_update(e0, d, job_id, fee_amount) ==
    IF d.err # "Ok" THEN Fail(e0, d.err)
    ELSE
      LET j2 == [d.job EXCEPT !.escrow_balance = @ - fee_amount,
                              !.state = IF AllPaid(d.job) THEN "Completed"
                                        ELSE "Active",
                              !.dispute_raised_by = NoAddress,
                              !.selected_arbitrator = NoAddress]
      IN  Ok(update_job(d.env, job_id, j2), 0)

resolve_pay(e0, x, t, job, job_id, milestone_idx, decision, fee_amount, cb) ==
    IF x.err # "Ok" THEN Fail(e0, x.err)
    ELSE resolve_update(e0,
             resolve_decide(x.env, t, job, job_id, milestone_idx, decision, cb),
             job_id, fee_amount)

(* resolve_dispute with the fee rounded up instead of truncated. *)
resolve_dispute_fee_up(e0, t, arbitrator, job_id, milestone_idx, decision, cb) ==
    LET g == check_reentrancy(e0) IN
    IF g.err # "Ok" THEN Fail(e0, g.err)
    ELSE IF ~has_job(g.env, job_id) THEN Fail(e0, "JobNotFound")
    ELSE LET job == get_job(g.env, job_id) IN
    IF job.state # "Disputed" THEN Fail(e0, "InvalidState")
    ELSE IF job.selected_arbitrator # arbitrator THEN Fail(e0, "NotArbitrator")
    ELSE IF ~has_token_id(g.env) THEN Fail(e0, "TokenNotSet")
    ELSE LET fee_amount == (job.total_value * ARB_FEE + 99) \div 100 IN
      resolve_pay(e0,
          transfer(g.env, t, CONTRACT, arbitrator, fee_amount,
                   Tag("arb_fee", job_id, NoIdx), cb),
          t, job, job_id, milestone_idx, decision, fee_amount, cb)

resolve_dispute(e0, t, arbitrator, job_id, milestone_idx, decision, cb) ==
    LET g == check_reentrancy(e0) IN
    IF g.err # "Ok" THEN Fail(e0, g.err)
    ELSE IF ~has_job(g.env, job_id) THEN Fail(e0, "JobNotFound")
    ELSE LET job == get_job(g.env, job_id) IN
    IF job.state # "Disputed" THEN Fail(e0, "InvalidState")
    ELSE IF job.selected_arbitrator # arbitrator THEN Fail(e0, "NotArbitrator")
    ELSE IF ~has_token_id(g.env) THEN Fail(e0, "TokenNotSet")
    ELSE LET fee_amount == (job.total_value * ARB_FEE) \div 100 IN
      resolve_pay(e0,
          transfer(g.env, t, CONTRACT, arbitrator, fee_amount,
                   Tag("arb_fee", job_id, NoIdx), cb),
          t, job, job_id, milestone_idx, decision, fee_amount, cb)

(***************************************************************************)
(* cancel_job                                                              *)
(***************************************************************************)
(* Variant of cancel_job that refuses only a Cancelled job. *)
cancel_job_completed_allowed(e0, t, client, job_id, cb) ==
    LET g == check_reentrancy(e0) IN
    IF g.err # "Ok" THEN Fail(e0, g.err)
    ELSE IF ~has_job(g.env, job_id) THEN Fail(e0, "JobNotFound")
    ELSE LET job == get_job(g.env, job_id) IN
    IF job.client # client THEN Fail(e0, "Unauthorized")
    ELSE IF job.state = "Cancelled" THEN Fail(e0, "JobCompleted")
    ELSE IF ~has_token_id(g.env) THEN Fail(e0, "TokenNotSet")
    ELSE LET hired == job.talent # NoAddress
             refund_0 == job.escrow_balance - job.cancellation_fee
             refund_amount == IF hired THEN refund_0
                              ELSE refund_0 + job.cancellation_fee
             x == IF hired
                  THEN transfer(g.env, t, CONTRACT, job.talent,
                                job.cancellation_fee,
                                Tag("cancel_fee", job_id, NoIdx), cb)
                  ELSE Ok(g.env, 0) IN
    IF x.err # "Ok" THEN Fail(e0, x.err)
    ELSE LET y == IF refund_amount > 0
                  THEN transfer(x.env, t, CONTRACT, client, refund_amount,
                                Tag("refund", job_id, NoIdx), cb)
                  ELSE Ok(x.env, 0) IN
    IF y.err # "Ok" THEN Fail(e0, y.err)
    ELSE
      LET j2 == [job EXCEPT !.state = "Cancelled", !.escrow_balance = 0]
      IN  Ok(update_job(y.env, job_id, j2), 0)

cancel_job(e0, t, client, job_id, cb) ==
    LET g == check_reentrancy(e0) IN
    IF g.err # "Ok" THEN Fail(e0, g.err)
    ELSE IF ~has_job(g.env, job_id) THEN Fail(e0, "JobNotFound")
    ELSE LET job == get_job(g.env, job_id) IN
    IF job.client # client THEN Fail(e0, "Unauthorized")
    ELSE IF job.state \in {"Completed", "Cancelled"} THEN Fail(e0, "JobCompleted")
    ELSE IF ~has_token_id(g.env) THEN Fail(e0, "TokenNotSet")
    ELSE LET hired == job.talent # NoAddress
             refund_0 == job.escrow_balance - job.cancellation_fee
             refund_amount == IF hired THEN refund_0
                              ELSE refund_0 + job.cancellation_fee
             x == IF hired
                  THEN transfer(g.env, t, CONTRACT, job.talent,
                                job.cancellation_fee,
                                Tag("cancel_fee", job_id, NoIdx), cb)
                  ELSE Ok(g.env, 0) IN
    IF x.err # "Ok" THEN Fail(e0, x.err)
    ELSE LET y == IF refund_amount > 0
                  THEN transfer(x.env, t, CONTRACT, client, refund_amount,
                                Tag("refund", job_id, NoIdx), cb)
                  ELSE Ok(x.env, 0) IN
    IF y.err # "Ok" THEN Fail(e0, y.err)
    ELSE
      LET j2 == [job EXCEPT !.state = "Cancelled", !.escrow_balance = 0]
      IN  Ok(update_job(y.env, job_id, j2), 0)

(***************************************************************************)
(* register_arbitrator                                                     *)
(***************************************************************************)
register_arbitrator(e0, t, arbitrator, specialization) ==
    LET g == check_reentrancy(e0) IN
    IF g.err # "Ok" THEN Fail(e0, g.err)
    ELSE LET arbitrators == get_arbitrators(g.env) IN
    IF arbitrator \in DOMAIN arbitrators THEN Fail(e0, "InvalidState")
    ELSE
      LET entry == [address |-> arbitrator,
                    fee_percentage |-> ARB_FEE,
                    reputation |-> InitialReputation,
                    cases_handled |-> InitialCases,
                    specialization |-> specialization]
      IN  Ok([g.env EXCEPT !.ARB_REG =
                 [a \in (DOMAIN arbitrators) \cup {arbitrator} |->
                     IF a = arbitrator THEN entry ELSE arbitrators[a]]], 0)

(***************************************************************************)
(* The contract's entry points: a call is dispatched to its handler.       *)
(***************************************************************************)
Invoke(e, t, c) ==
    CASE c.op = "initialize" -> initialize(e, t, TokenAsset)
      [] c.op = "create_job" ->
            create_job(e, t, c.caller, c.ndesc, c.amounts, c.deadlines)
      [] c.op = "fund_job" -> fund_job(e, t, c.caller, c.job_id, c.cb)
      [] c.op = "select_talent" ->
            select_talent(e, t, c.caller, c.job_id, c.other)
      [] c.op = "submit_milestone" ->
            submit_milestone(e, t, c.caller, c.job_id, c.idx, Data32)
      [] c.op = "approve_milestone" ->
            approve_milestone(e, t, c.caller, c.job_id, c.idx, c.cb)
      [] c.op = "raise_dispute" ->
            raise_dispute(e, t, c.caller, c.job_id, c.idx, c.other)
      [] c.op = "resolve_dispute" ->
            resolve_dispute(e, t, c.caller, c.job_id, c.idx, c.decision, c.cb)
      [] c.op = "cancel_job" -> cancel_job(e, t, c.caller, c.job_id, c.cb)
      [] c.op = "register_arbitrator" ->
            register_arbitrator(e, t, c.caller, Spec32)

(***************************************************************************)
(* The guard release of the specification (4.2, exit): the flag is cleared *)
(* when a guarded operation returns.  The source has no such step; it is   *)
(* used only by the specification SpecExit.                                *)
(***************************************************************************)
exit(e) == [e EXCEPT !.RE_ENTRY = FALSE]

ExitOnReturn(c, r) ==
    IF r.err = "Ok" /\ c.op # "initialize"
    THEN [r EXCEPT !.env = exit(r.env)] ELSE r

InvokeExit(e, t, c) == ExitOnReturn(c, Invoke(e, t, c))

(***************************************************************************)
(* State.                                                                  *)
(***************************************************************************)
VARIABLES RE_ENTRY, TOKEN_ID, JOB_CNT, JOBS, ARB_REG, balance, now, disputes

vars == <<RE_ENTRY, TOKEN_ID, JOB_CNT, JOBS, ARB_REG, balance, now, disputes>>

Env == [RE_ENTRY |-> RE_ENTRY, TOKEN_ID |-> TOKEN_ID, JOB_CNT |-> JOB_CNT,
        JOBS |-> JOBS, ARB_REG |-> ARB_REG, balance |-> balance,
        xfers |-> <<>>, nested |-> <<>>]

Init ==
    /\ RE_ENTRY = FALSE
    /\ TOKEN_ID = TokenUnset
    /\ JOB_CNT = 0
    /\ JOBS = <<>>
    /\ ARB_REG = <<>>
    /\ balance = [h \in Holder |-> IF h = CONTRACT THEN 0 ELSE InitBalance]
    /\ now = 0
    /\ disputes = 0

(***************************************************************************)
(* Inputs.                                                                 *)
(***************************************************************************)
SeqsUpTo(S, n) == UNION {[1..k -> S] : k \in 0..n}
DeadlineSeqs == SeqsUpTo(DeadlineInput, MaxMilestones)
IdxOpt == IdxInput \cup {NoIdx}

CreateCallsOf(clients, amounts) ==
    {Call("create_job", c, 0, NoIdx, FALSE, NoAddress, a, d, n, NoCall) :
        c \in clients, a \in SeqsUpTo(amounts, MaxMilestones),
        d \in DeadlineSeqs, n \in 0..MaxMilestones}
CreateCalls == CreateCallsOf(ClientInput, AmountInput)
CreateCallsWide == CreateCallsOf(Address, AmountInputWide)
FundCalls ==
    {JobCall("fund_job", c, j, NoIdx, FALSE, NoAddress, NoCall) :
        c \in Address, j \in JobIdInput}
SelectCalls ==
    {JobCall("select_talent", c, j, NoIdx, FALSE, w, NoCall) :
        c \in Address, j \in JobIdInput, w \in TalentInput}
SubmitCalls ==
    {JobCall("submit_milestone", c, j, i, FALSE, NoAddress, NoCall) :
        c \in Address, j \in JobIdInput, i \in IdxInput}
ApproveCalls ==
    {JobCall("approve_milestone", c, j, i, FALSE, NoAddress, NoCall) :
        c \in Address, j \in JobIdInput, i \in IdxInput}
RaiseCalls ==
    {JobCall("raise_dispute", c, j, i, FALSE, a, NoCall) :
        c \in Address, j \in JobIdInput, i \in IdxOpt,
        a \in ArbitratorInput \cup TalentInput}
ResolveCalls ==
    {JobCall("resolve_dispute", c, j, i, d, NoAddress, NoCall) :
        c \in Address, j \in JobIdInput, i \in IdxOpt, d \in BOOLEAN}
CancelCalls ==
    {JobCall("cancel_job", c, j, NoIdx, FALSE, NoAddress, NoCall) :
        c \in Address, j \in JobIdInput}
RegisterCalls ==
    {JobCall("register_arbitrator", c, 0, NoIdx, FALSE, NoAddress, NoCall) :
        c \in ArbitratorInput}

JobCalls == FundCalls \cup SelectCalls \cup SubmitCalls \cup ApproveCalls
            \cup RaiseCalls \cup ResolveCalls \cup CancelCalls
GuardedCalls == CreateCalls \cup JobCalls \cup RegisterCalls

(***************************************************************************)
(* The calls the token makes back into the contract during a transfer of   *)
(* call c: none, or the call c itself once more.                           *)
(***************************************************************************)
Callbacks(c) == {NoCall, c}

WithCallback(c, cb) == [c EXCEPT !.cb = cb]

(***************************************************************************)
(* Steps.  Commit stores what a call's outcome leaves: for a failed call   *)
(* that is the state before the call.                                      *)
(***************************************************************************)
Returned(rel, c, r) == IF rel THEN ExitOnReturn(c, r) ELSE r

Outcome(rel, c) == Returned(rel, c, Invoke(Env, now, c))

Commit(r, c) ==
    /\ RE_ENTRY' = r.env.RE_ENTRY
    /\ TOKEN_ID' = r.env.TOKEN_ID
    /\ JOB_CNT' = r.env.JOB_CNT
    /\ JOBS' = r.env.JOBS
    /\ ARB_REG' = r.env.ARB_REG
    /\ balance' = r.env.balance
    /\ disputes' = IF c.op = "raise_dispute" /\ r.err = "Ok"
                   THEN disputes + 1 ELSE disputes
    /\ UNCHANGED now

Step(rel, c) == Commit(Outcome(rel, c), c)

(***************************************************************************)
(* Every guarded operation first has the host check that the address it    *)
(* is given authorized the call (require_auth): the caller of a call is    *)
(* the address that signed it.                                             *)
(***************************************************************************)
require_auth(address) == address \in Address

Initialize ==
    /\ TRUE
    /\ Step(FALSE, [op |-> "initialize"])

CreateJob(rel, calls) ==
    /\ JOB_CNT < MaxJobs
    /\ \E c \in calls : require_auth(c.caller) /\ Step(rel, c)

FundJob(rel) ==
    \E c \in FundCalls : \E cb \in Callbacks(c) :
        /\ require_auth(c.caller)
        /\ Step(rel, WithCallback(c, cb))

SelectTalent(rel) ==
    \E c \in SelectCalls :
        /\ require_auth(c.caller)
        /\ Step(rel, c)

SubmitMilestone(rel) ==
    \E c \in SubmitCalls :
        /\ require_auth(c.caller)
        /\ Step(rel, c)

ApproveMilestone(rel) ==
    \E c \in ApproveCalls : \E cb \in Callbacks(c) :
        /\ require_auth(c.caller)
        /\ Step(rel, WithCallback(c, cb))

RaiseDispute(rel) ==
    /\ disputes < MaxDisputes
    /\ \E c \in RaiseCalls : require_auth(c.caller) /\ Step(rel, c)

ResolveDispute(rel) ==
    \E c \in ResolveCalls : \E cb \in Callbacks(c) :
        /\ require_auth(c.caller)
        /\ Step(rel, WithCallback(c, cb))

CancelJob(rel) ==
    \E c \in CancelCalls : \E cb \in Callbacks(c) :
        /\ require_auth(c.caller)
        /\ Step(rel, WithCallback(c, cb))

RegisterArbitrator(rel) ==
    \E c \in RegisterCalls :
        /\ require_auth(c.caller)
        /\ Step(rel, c)

Tick == now < MaxTime /\ now' = now + 1
        /\ UNCHANGED <<RE_ENTRY, TOKEN_ID, JOB_CNT, JOBS, ARB_REG, balance,
                       disputes>>

(***************************************************************************)
(* Spec: the contract as written.  The guard is set by the first guarded   *)
(* call that returns and nothing clears it, so create_job is explored over *)
(* its wide input set.                                                     *)
(***************************************************************************)
Next ==
    \/ Initialize
    \/ CreateJob(FALSE, CreateCallsWide)
    \/ FundJob(FALSE)
    \/ SelectTalent(FALSE)
    \/ SubmitMilestone(FALSE)
    \/ ApproveMilestone(FALSE)
    \/ RaiseDispute(FALSE)
    \/ ResolveDispute(FALSE)
    \/ CancelJob(FALSE)
    \/ RegisterArbitrator(FALSE)
    \/ Tick

Spec == Init /\ [][Next]_vars

(***************************************************************************)
(* SpecExit: the contract with the guard released when a call returns.     *)
(***************************************************************************)
NextExit ==
    \/ Initialize
    \/ CreateJob(TRUE, CreateCalls)
    \/ FundJob(TRUE)
    \/ SelectTalent(TRUE)
    \/ SubmitMilestone(TRUE)
    \/ ApproveMilestone(TRUE)
    \/ RaiseDispute(TRUE)
    \/ ResolveDispute(TRUE)
    \/ CancelJob(TRUE)
    \/ RegisterArbitrator(TRUE)
    \/ Tick

SpecExit == Init /\ [][NextExit]_vars

(***************************************************************************)
(* Vocabulary of the properties.                                           *)
(***************************************************************************)
JobIds == {id \in JobIdInput : has_job(Env, id)}

Job(id) == get_job(Env, id)

After(c) == InvokeExit(Env, now, c)

Reentered(c) == WithCallback(c, c)

Untouched(r) ==
    /\ r.env.JOBS = JOBS
    /\ r.env.balance = balance
    /\ r.env.ARB_REG = ARB_REG
    /\ r.env.JOB_CNT = JOB_CNT
    /\ r.env.xfers = <<>>

PaidSum(job) ==
    Sum([i \in 1..Len(job.milestones) |->
            IF job.milestones[i].state = "Paid"
            THEN job.milestones[i].amount ELSE 0])

Terminal(job) == job.state \in {"Completed", "Cancelled"}

C2_AmountPaidIsPaidSum ==
    \A id \in JobIds : Job(id).amount_paid = PaidSum(Job(id))

(***************************************************************************)
(* C3: once a milestone is Paid, every step leaves it Paid with its fields *)
(* unchanged and pays it no second time: amount_paid grows only by the     *)
(* amounts of the milestones that become Paid in the step.                 *)
(***************************************************************************)
NewlyPaidSum(old, new) ==
    Sum([i \in 1..Len(old.milestones) |->
            IF old.milestones[i].state # "Paid"
               /\ new.milestones[i].state = "Paid"
            THEN old.milestones[i].amount ELSE 0])

PaidIsFinalStep ==
    \A id \in JobIds :
        LET old == JOBS[job_key(id)]
            new == JOBS'[job_key(id)]
        IN  /\ \A i \in 1..Len(old.milestones) :
                  old.milestones[i].state = "Paid"
                      => new.milestones[i] = old.milestones[i]
            /\ new.amount_paid - old.amount_paid = NewlyPaidSum(old, new)

C3_PaidIsFinal == [][PaidIsFinalStep]_vars

(***************************************************************************)
(* C4: after a guarded operation returns the reentrancy flag is clear, so  *)
(* no following top-level call is rejected with Reentrancy.                *)
(***************************************************************************)
C4_GuardClearAfterReturn ==
    /\ RE_ENTRY = FALSE
    /\ \A c \in CreateCallsWide \cup JobCalls \cup RegisterCalls :
           Invoke(Env, now, c).err # "Reentrancy"

(***************************************************************************)
(* C5: every call nested in a transfer of fund_job, approve_milestone,     *)
(* resolve_dispute or cancel_job fails with Reentrancy and changes         *)
(* nothing, and the outer call ends as it does without the nested call.    *)
(***************************************************************************)
TransferCalls == FundCalls \cup ApproveCalls \cup ResolveCalls \cup CancelCalls

NestedInput ==
    {c \in CreateCalls : c.ndesc = Len(c.amounts) /\ Len(c.amounts) = Len(c.deadlines)}
        \cup JobCalls \cup RegisterCalls

NestedRejected(plain, r) ==
    /\ r = [plain EXCEPT !.env.nested = r.env.nested]
    /\ r.err = "Ok"
    /\ r.env.nested # <<>>
    /\ \A k \in 1..Len(r.env.nested) :
           r.env.nested[k].err = "Reentrancy" /\ ~r.env.nested[k].changed

C5_NestedCallsRejected ==
    \A c \in TransferCalls :
        After(c).err = "Ok" /\ After(c).env.xfers # <<>> =>
            \A n \in NestedInput :
                NestedRejected(After(c), After(WithCallback(c, n)))

(* A payout during which the token re-enters approve_milestone. *)
C5_Witness ==
    \E c \in ApproveCalls :
        /\ After(Reentered(c)).err = "Ok"
        /\ Len(After(Reentered(c)).env.nested) = 1
        /\ After(Reentered(c)).env.nested[1].err = "Reentrancy"

(***************************************************************************)
(* C6: on a Completed or Cancelled job every state-changing call fails     *)
(* with JobCompleted.                                                      *)
(***************************************************************************)
C6_TerminalFailsJobCompleted ==
    \A id \in JobIds :
        Terminal(Job(id)) =>
            \A c \in JobCalls :
                c.job_id = id => After(c).err = "JobCompleted"

(***************************************************************************)
(* C7: fund_job, select_talent, approve_milestone and cancel_job called    *)
(* with an address other than job.client fail with Unauthorized in every   *)
(* job state and change nothing.                                           *)
(***************************************************************************)
ClientOnlyCalls ==
    FundCalls \cup SelectCalls \cup ApproveCalls \cup CancelCalls

RejectedAs(r, err) == r.err = err /\ Untouched(r)

C7_OnlyClient ==
    \A id \in JobIds :
        \A c \in ClientOnlyCalls :
            c.job_id = id /\ c.caller # Job(id).client =>
                /\ RejectedAs(After(c), "Unauthorized")
                /\ RejectedAs(After(Reentered(c)), "Unauthorized")

(***************************************************************************)
(* C8: fund_job by the client succeeds only on a Created job; it then      *)
(* moves exactly total_value from the client to the contract and sets      *)
(* escrow_balance = total_value and state = Funded.  On a job in any later *)
(* state it fails with InvalidState and transfers nothing.                 *)
(***************************************************************************)
Moves(x, from, to, amount) ==
    x.from = from /\ x.to = to /\ x.amount = amount

Funds(id, r) ==
    LET old == Job(id)
        new == get_job(r.env, id)
    IN  /\ old.state = "Created"
        /\ Len(r.env.xfers) = 1
        /\ Moves(r.env.xfers[1], old.client, CONTRACT, old.total_value)
        /\ r.env.balance[CONTRACT] = balance[CONTRACT] + old.total_value
        /\ r.env.balance[old.client] = balance[old.client] - old.total_value
        /\ new = [old EXCEPT !.escrow_balance = old.total_value,
                             !.state = "Funded"]

FundOutcome(id, r) ==
    /\ r.err = "Ok" => Funds(id, r)
    /\ Job(id).state # "Created" => RejectedAs(r, "InvalidState")

C8_FundOnce ==
    \A id \in JobIds :
        \A c \in FundCalls :
            c.job_id = id /\ c.caller = Job(id).client =>
                /\ FundOutcome(id, After(c))
                /\ FundOutcome(id, After(Reentered(c)))

(* A funded job, holding its total value, on which the client funds again. *)
C8_Witness ==
    \E id \in JobIds :
        \E c \in FundCalls :
            /\ c.job_id = id /\ c.caller = Job(id).client
            /\ Job(id).state = "Funded"
            /\ Job(id).escrow_balance = Job(id).total_value
            /\ balance[CONTRACT] >= Job(id).total_value
            /\ balance[Job(id).client] >= Job(id).total_value
            /\ After(c).err = "InvalidState"

(***************************************************************************)
(* C9: a successful approve_milestone(client, job, idx) transfers exactly  *)
(* milestones[idx].amount to the talent, adds it to amount_paid, takes it  *)
(* from escrow_balance, sets the milestone to Paid, and leaves the job     *)
(* Completed if every milestone is then Paid and Active otherwise.         *)
(***************************************************************************)
Approves(c, r) ==
    LET old == Job(c.job_id)
        new == get_job(r.env, c.job_id)
        m == old.milestones[c.idx + 1]
    IN  /\ c.caller = old.client
        /\ Len(r.env.xfers) = 1
        /\ Moves(r.env.xfers[1], CONTRACT, old.talent, m.amount)
        /\ r.env.balance[old.talent] = balance[old.talent] + m.amount
        /\ r.env.balance[CONTRACT] = balance[CONTRACT] - m.amount
        /\ new.amount_paid = old.amount_paid + m.amount
        /\ new.escrow_balance = old.escrow_balance - m.amount
        /\ new.milestones = [old.milestones EXCEPT ![c.idx + 1].state = "Paid"]
        /\ new.state = IF \A i \in 1..Len(new.milestones) :
                              new.milestones[i].state = "Paid"
                       THEN "Completed" ELSE "Active"
        /\ new = [old EXCEPT !.amount_paid = new.amount_paid,
                             !.escrow_balance = new.escrow_balance,
                             !.milestones = new.milestones,
                             !.state = new.state]

CancelPays(old, xfers) ==
    LET rest == old.escrow_balance - old.cancellation_fee
    IN  IF old.talent # NoAddress
        THEN /\ Len(xfers) = IF rest > 0 THEN 2 ELSE 1
             /\ Moves(xfers[1], CONTRACT, old.talent, old.cancellation_fee)
             /\ rest > 0 => Moves(xfers[2], CONTRACT, old.client, rest)
        ELSE /\ Len(xfers) = IF old.escrow_balance > 0 THEN 1 ELSE 0
             /\ old.escrow_balance > 0 =>
                    Moves(xfers[1], CONTRACT, old.client, old.escrow_balance)

Cancels(id, r) ==
    /\ r.err = "Ok"
    /\ get_job(r.env, id) = [Job(id) EXCEPT !.state = "Cancelled",
                                            !.escrow_balance = 0]
    /\ CancelPays(Job(id), r.env.xfers)

C10_CancelAlwaysSucceeds ==
    \A id \in JobIds :
        \A c \in CancelCalls :
            /\ c.job_id = id /\ c.caller = Job(id).client
            /\ ~Terminal(Job(id))
            /\ has_token_id(Env)
            => Cancels(id, After(c))

(***************************************************************************)
(* C11: after resolve_dispute with decision = false every milestone it     *)
(* rejects (the named one, or every Submitted one when no index is given)  *)
(* is Pending with zeroed submission data, the job is Active, and a        *)
(* following submit_milestone by the talent on that milestone, at a time   *)
(* not after its deadline, succeeds.                                       *)
(***************************************************************************)
Rejects(job, c) ==
    IF c.idx # NoIdx THEN {c.idx + 1}
    ELSE {i \in 1..Len(job.milestones) : job.milestones[i].state = "Submitted"}

Resubmit(job, c, i) ==
    JobCall("submit_milestone", job.talent, c.job_id, i - 1, FALSE,
            NoAddress, NoCall)

PendingAgain(c, r, new) ==
    /\ new.state = "Active"
    /\ \A i \in Rejects(Job(c.job_id), c) :
           /\ new.milestones[i].state = "Pending"
           /\ new.milestones[i].submission_data = Zero32
           /\ now <= new.milestones[i].deadline =>
                  InvokeExit(r.env, now, Resubmit(new, c, i)).err = "Ok"

C11_RejectedIsPendingAgain ==
    \A c \in ResolveCalls :
        ~c.decision /\ After(c).err = "Ok" =>
            PendingAgain(c, After(c), get_job(After(c).env, c.job_id))

(***************************************************************************)
(* C12: every successful resolve_dispute leaves the job Completed if every *)
(* milestone is Paid after the decision was applied and Active otherwise,  *)
(* and leaves dispute_raised_by and selected_arbitrator unset, for both    *)
(* decisions and with or without a milestone index.                        *)
(***************************************************************************)
Resolved(new) ==
    /\ new.state = IF \A i \in 1..Len(new.milestones) :
                          new.milestones[i].state = "Paid"
                   THEN "Completed" ELSE "Active"
    /\ new.dispute_raised_by = NoAddress
    /\ new.selected_arbitrator = NoAddress

C12_ResolveLeavesCompletedOrActive ==
    \A c \in ResolveCalls :
        /\ After(c).err = "Ok" => Resolved(get_job(After(c).env, c.job_id))
        /\ After(Reentered(c)).err = "Ok" =>
               Resolved(get_job(After(Reentered(c)).env, c.job_id))

(* A Disputed job that one decision completes and the other leaves Active. *)
C12_Witness ==
    \E c \in ResolveCalls :
        /\ c.decision /\ c.idx = NoIdx
        /\ After(c).err = "Ok"
        /\ get_job(After(c).env, c.job_id).state = "Completed"
        /\ After([c EXCEPT !.decision = FALSE]).err = "Ok"
        /\ get_job(After([c EXCEPT !.decision = FALSE]).env,
                   c.job_id).state = "Active"

(***************************************************************************)
(* C13: every successful resolve_dispute transfers exactly                 *)
(* total_value * 5 / 100 (integer division) to the arbitrator and takes    *)
(* that fee from escrow_balance exactly once, whatever the decision and    *)
(* however many milestones the call approves or rejects; the decrease of   *)
(* escrow_balance in the call is the fee plus the milestone amounts the    *)
(* call paid out.                                                          *)
(***************************************************************************)
FeeOf(job) == (job.total_value * 5) \div 100

PaidOut(xfers) ==
    Sum([k \in 1..Len(xfers) |->
            IF xfers[k].tag.kind = "milestone" THEN xfers[k].amount ELSE 0])

ChargesFeeOnce(c, r) ==
    LET old == Job(c.job_id)
        new == get_job(r.env, c.job_id)
        x == r.env.xfers
    IN  /\ Len(x) >= 1
        /\ Moves(x[1], CONTRACT, c.caller, FeeOf(old))
        /\ \A k \in 2..Len(x) :
               x[k].tag.kind = "milestone" /\ x[k].to = old.talent
        /\ r.env.balance[c.caller] = balance[c.caller] + FeeOf(old)
        /\ old.escrow_balance - new.escrow_balance = FeeOf(old) + PaidOut(x)
        /\ new.amount_paid - old.amount_paid = PaidOut(x)

C13_ArbitratorFeeOnce ==
    \A c \in ResolveCalls :
        /\ After(c).err = "Ok" => ChargesFeeOnce(c, After(c))
        /\ After(Reentered(c)).err = "Ok" =>
               ChargesFeeOnce(c, After(Reentered(c)))

(* A resolution that pays two milestones and charges the truncated fee. *)
C13_Witness ==
    \E c \in ResolveCalls :
        /\ After(c).err = "Ok"
        /\ Len(After(c).env.xfers) = 3
        /\ FeeOf(Job(c.job_id)) * 100 < Job(c.job_id).total_value * 5

(***************************************************************************)
(* C14: raise_dispute(caller, job, idx?, arbitrator) succeeds exactly when *)
(* the caller is the job's client or talent, the job is Active, the        *)
(* arbitrator is registered and the milestone idx (when given) is          *)
(* Submitted; it then sets state = Disputed, dispute_raised_by = caller    *)
(* and selected_arbitrator = arbitrator and changes nothing else.          *)
(* Otherwise it fails with Unauthorized (caller is neither party),         *)
(* InvalidState (job not Active), ArbitrationPending (job already          *)
(* Disputed), NotArbitrator (arbitrator not registered) or NotSubmitted    *)
(* (named milestone not Submitted).                                        *)
(***************************************************************************)
NamedSubmitted(job, c) ==
    /\ c.idx < Len(job.milestones)
    /\ job.milestones[c.idx + 1].state = "Submitted"

RaiseAllowed(job, c) ==
    /\ c.caller \in {job.client, job.talent}
    /\ job.state = "Active"
    /\ is_arbitrator(Env, c.other)
    /\ c.idx # NoIdx => NamedSubmitted(job, c)

RaiseRefused(job, c, err) ==
    \/ err = "Unauthorized" /\ c.caller \notin {job.client, job.talent}
    \/ err = "InvalidState" /\ job.state # "Active"
    \/ err = "ArbitrationPending" /\ job.state = "Disputed"
    \/ err = "NotArbitrator" /\ ~is_arbitrator(Env, c.other)
    \/ err = "NotSubmitted" /\ c.idx # NoIdx /\ ~NamedSubmitted(job, c)

Raises(job, c, r) ==
    /\ r.err = "Ok"
    /\ r.env.JOBS = [JOBS EXCEPT ![job_key(c.job_id)] =
                        [job EXCEPT !.state = "Disputed",
                                    !.dispute_raised_by = c.caller,
                                    !.selected_arbitrator = c.other]]
    /\ r.env.balance = balance
    /\ r.env.ARB_REG = ARB_REG
    /\ r.env.JOB_CNT = JOB_CNT
    /\ r.env.xfers = <<>>

C14_RaiseDispute ==
    \A id \in JobIds :
        \A c \in RaiseCalls :
            c.job_id = id =>
                IF RaiseAllowed(Job(id), c)
                THEN Raises(Job(id), c, After(c))
                ELSE /\ RaiseRefused(Job(id), c, After(c).err)
                     /\ Untouched(After(c))

(***************************************************************************)
(* C15: resolve_dispute changes a job and moves funds only when the job is *)
(* Disputed and the caller is the job's selected_arbitrator; a call by any *)
(* other address fails with NotArbitrator and a call on a job that is not  *)
(* Disputed fails with InvalidState, in both cases with no transfer and    *)
(* the job unchanged.                                                      *)
(***************************************************************************)
ResolveGuarded(job, c, r) ==
    /\ ~Untouched(r) =>
           job.state = "Disputed" /\ c.caller = job.selected_arbitrator
    /\ job.state # "Disputed" => RejectedAs(r, "InvalidState")
    /\ job.state = "Disputed" /\ c.caller # job.selected_arbitrator =>
           RejectedAs(r, "NotArbitrator")

C15_OnlySelectedArbitratorResolves ==
    \A id \in JobIds :
        \A c \in ResolveCalls :
            c.job_id = id =>
                /\ ResolveGuarded(Job(id), c, After(c))
                /\ ResolveGuarded(Job(id), c, After(Reentered(c)))

(***************************************************************************)
(* C16: submit_milestone(talent, job, idx, data) succeeds exactly when the *)
(* job is Active, the caller is job.talent, idx is a valid index, the      *)
(* milestone is Pending and the current time is <= the milestone's         *)
(* deadline; it then sets the milestone to Submitted with submission_data  *)
(* = data and submitted_at = now.  A call after the deadline fails with    *)
(* DeadlinePassed, on a non-Pending milestone with MilestonePending, on an *)
(* out-of-range index with InvalidIndex, by another address with           *)
(* Unauthorized.                                                           *)
(***************************************************************************)
SubmitAllowed(job, c) ==
    /\ job.state = "Active"
    /\ c.caller = job.talent
    /\ c.idx < Len(job.milestones)
    /\ job.milestones[c.idx + 1].state = "Pending"
    /\ now <= job.milestones[c.idx + 1].deadline

SubmitRefused(job, c, err) ==
    \/ err # "Ok" /\ job.state # "Active"
    \/ err = "Unauthorized" /\ c.caller # job.talent
    \/ err = "InvalidIndex" /\ c.idx >= Len(job.milestones)
    \/ /\ err = "MilestonePending"
       /\ c.idx < Len(job.milestones)
       /\ job.milestones[c.idx + 1].state # "Pending"
    \/ /\ err = "DeadlinePassed"
       /\ c.idx < Len(job.milestones)
       /\ now > job.milestones[c.idx + 1].deadline

Submits(job, c, r) ==
    /\ r.err = "Ok"
    /\ r.env.JOBS = [JOBS EXCEPT ![job_key(c.job_id)] =
                        [job EXCEPT !.milestones[c.idx + 1] =
                            [@ EXCEPT !.state = "Submitted",
                                      !.submission_data = Data32,
                                      !.submitted_at = now]]]
    /\ r.env.balance = balance
    /\ r.env.ARB_REG = ARB_REG
    /\ r.env.JOB_CNT = JOB_CNT
    /\ r.env.xfers = <<>>

C16_SubmitMilestone ==
    \A id \in JobIds :
        \A c \in SubmitCalls :
            c.job_id = id =>
                IF SubmitAllowed(Job(id), c)
                THEN Submits(Job(id), c, After(c))
                ELSE /\ SubmitRefused(Job(id), c, After(c).err)
                     /\ Untouched(After(c))

(* After the deadline, with one milestone submitted in time: the talent's  *)
(* calls fail with MilestonePending on it and DeadlinePassed on the other, *)
(* a stranger's with Unauthorized, an index past the end with InvalidIndex.*)
C16_Witness ==
    \E id \in JobIds :
        \E c \in SubmitCalls :
            /\ c.job_id = id /\ c.caller = Job(id).talent /\ c.idx = 0
            /\ Job(id).state = "Active"
            /\ Len(Job(id).milestones) = 2
            /\ Job(id).milestones[1].state = "Submitted"
            /\ Job(id).milestones[1].submitted_at = 0
            /\ now = 1
            /\ After(c).err = "MilestonePending"
            /\ After([c EXCEPT !.idx = 1]).err = "DeadlinePassed"
            /\ After([c EXCEPT !.idx = 2]).err = "InvalidIndex"
            /\ After([c EXCEPT !.caller = Job(id).client]).err = "Unauthorized"

(***************************************************************************)
(* C17: the talent of a job is set exactly once: select_talent by the      *)
(* client on a job whose talent is already set fails with TalentExists,    *)
(* and once set job.talent never changes in any later state.               *)
(***************************************************************************)
SecondSelectRefused ==
    \A id \in JobIds :
        Job(id).talent # NoAddress =>
            \A c \in SelectCalls :
                c.job_id = id /\ c.caller = Job(id).client =>
                    RejectedAs(After(c), "TalentExists")

TalentKeptStep ==
    \A id \in JobIds :
        JOBS[job_key(id)].talent # NoAddress =>
            JOBS'[job_key(id)].talent = JOBS[job_key(id)].talent

C17_TalentSetOnce == []SecondSelectRefused /\ [][TalentKeptStep]_vars

(***************************************************************************)
(* C18: create_job fails with InvalidInput when descriptions, amounts and  *)
(* deadlines do not all have the same length, and with AmountRequired when *)
(* any amount is <= 0 (also when all amounts are zero or the lists are     *)
(* empty); on failure no job is stored and the job counter is unchanged.   *)
(* Otherwise it stores a job in state Created with total_value = sum of    *)
(* amounts, amount_paid = 0, escrow_balance = 0, no talent and every       *)
(* milestone Pending.                                                      *)
(***************************************************************************)
Creates(c, r) ==
    /\ r.err = "Ok"
    /\ r.env.JOB_CNT = JOB_CNT + 1
    /\ ~has_job(Env, r.ret)
    /\ has_job(r.env, r.ret)
    /\ \A id \in JobIds : get_job(r.env, id) = Job(id)
    /\ LET job == get_job(r.env, r.ret)
       IN  /\ job.state = "Created"
           /\ job.client = c.caller
           /\ job.total_value = Sum(c.amounts)
           /\ job.amount_paid = 0
           /\ job.escrow_balance = 0
           /\ job.talent = NoAddress
           /\ Len(job.milestones) = Len(c.amounts)
           /\ \A i \in 1..Len(c.amounts) :
                  /\ job.milestones[i].state = "Pending"
                  /\ job.milestones[i].amount = c.amounts[i]
                  /\ job.milestones[i].deadline = c.deadlines[i]

CreateOutcome(c, r) ==
    IF c.ndesc # Len(c.amounts) \/ Len(c.amounts) # Len(c.deadlines)
    THEN RejectedAs(r, "InvalidInput")
    ELSE IF c.amounts = <<>> \/ \E i \in 1..Len(c.amounts) : c.amounts[i] <= 0
    THEN RejectedAs(r, "AmountRequired")
    ELSE Creates(c, r)

C18_CreateJob ==
    \A c \in CreateCallsWide : CreateOutcome(c, After(c))

(***************************************************************************)
(* C19: approve_milestone by the client on a milestone that has already    *)
(* been paid fails with NotSubmitted and transfers nothing, also when that *)
(* payment was the job's last one and the job has become Completed.        *)
(***************************************************************************)
C19_PaidMilestoneNotSubmitted ==
    \A id \in JobIds :
        \A c \in ApproveCalls :
            /\ c.job_id = id /\ c.caller = Job(id).client
            /\ c.idx < Len(Job(id).milestones)
            /\ Job(id).milestones[c.idx + 1].state = "Paid"
            /\ Job(id).state \in {"Active", "Completed"}
            => RejectedAs(After(c), "NotSubmitted")

(***************************************************************************)
(* C20: register_arbitrator on an address that is already in the registry  *)
(* fails with InvalidState and leaves the registry unchanged; on a new     *)
(* address it adds exactly one entry with fee_percentage 5, reputation 80  *)
(* and cases_handled 0; no operation ever removes or alters an existing    *)
(* entry.                                                                  *)
(***************************************************************************)
RegisterCallsOf(addresses) ==
    {JobCall("register_arbitrator", a, 0, NoIdx, FALSE, NoAddress, NoCall) :
        a \in addresses}

Registers(c, r) ==
    /\ r.err = "Ok"
    /\ DOMAIN r.env.ARB_REG = (DOMAIN ARB_REG) \cup {c.caller}
    /\ \A a \in DOMAIN ARB_REG : r.env.ARB_REG[a] = ARB_REG[a]
    /\ r.env.ARB_REG[c.caller].address = c.caller
    /\ r.env.ARB_REG[c.caller].fee_percentage = 5
    /\ r.env.ARB_REG[c.caller].reputation = 80
    /\ r.env.ARB_REG[c.caller].cases_handled = 0
    /\ r.env.JOBS = JOBS
    /\ r.env.balance = balance
    /\ r.env.JOB_CNT = JOB_CNT

RegisterOutcome ==
    \A c \in RegisterCallsOf(Address) :
        IF c.caller \in DOMAIN ARB_REG
        THEN RejectedAs(After(c), "InvalidState")
        ELSE Registers(c, After(c))

RegistryKeptStep ==
    \A a \in DOMAIN ARB_REG :
        a \in DOMAIN ARB_REG' /\ ARB_REG'[a] = ARB_REG[a]

C20_RegisterArbitrator == []RegisterOutcome /\ [][RegistryKeptStep]_vars

(***************************************************************************)
(* C21: job ids come from an incrementing counter: the first successful    *)
(* create_job returns 1, each later successful create_job returns the      *)
(* previous id plus 1, the stored counter always equals the number of jobs *)
(* created, and no create_job overwrites the record of an existing job.    *)
(***************************************************************************)
CounterCountsJobs ==
    /\ DOMAIN JOBS = {job_key(id) : id \in 1..JOB_CNT}
    /\ Cardinality(DOMAIN JOBS) = JOB_CNT

NextIdReturned(r) ==
    /\ r.ret = JOB_CNT + 1
    /\ r.env.JOB_CNT = r.ret
    /\ job_key(r.ret) \notin DOMAIN JOBS
    /\ DOMAIN r.env.JOBS = DOMAIN JOBS \cup {job_key(r.ret)}
    /\ \A k \in DOMAIN JOBS : r.env.JOBS[k] = JOBS[k]

CreateReturnsNextId ==
    \A c \in CreateCallsWide :
        /\ After(c).err = "Ok" => NextIdReturned(After(c))
        /\ After(Reentered(c)).err = "Ok" =>
               NextIdReturned(After(Reentered(c)))

CounterStep ==
    /\ JOB_CNT' \in {JOB_CNT, JOB_CNT + 1}
    /\ DOMAIN JOBS \subseteq DOMAIN JOBS'
    /\ JOB_CNT' = JOB_CNT => DOMAIN JOBS' = DOMAIN JOBS

C21_JobIdsFromCounter ==
    [](CounterCountsJobs /\ CreateReturnsNextId) /\ [][CounterStep]_vars

(* Two jobs were created, under ids 1 and 2, and a further create_job     *)
(* would return 3.                                                         *)
C21_Witness ==
    /\ JOB_CNT = 2
    /\ DOMAIN JOBS = {job_key(1), job_key(2)}
    /\ \E c \in CreateCalls : After(c).err = "Ok" /\ After(c).ret = 3

(***************************************************************************)
(* C22: a milestone's amount is transferred to the talent, and the         *)
(* milestone set to Paid, only when that milestone is Submitted            *)
(* immediately before the step; this holds for approve_milestone and for   *)
(* resolve_dispute with decision = true, with a named index as well as in  *)
(* bulk.                                                                   *)
(***************************************************************************)
PayingCalls ==
    ApproveCalls \cup {c \in ResolveCalls : c.decision}

PaysOnlySubmitted(c, r) ==
    LET old == Job(c.job_id)
        new == get_job(r.env, c.job_id)
        x == r.env.xfers
    IN  /\ \A k \in 1..Len(x) :
               x[k].tag.kind = "milestone" =>
                   old.milestones[x[k].tag.idx + 1].state = "Submitted"
        /\ \A i \in 1..Len(old.milestones) :
               /\ new.milestones[i].state = "Paid"
               /\ old.milestones[i].state # "Paid"
               => old.milestones[i].state = "Submitted"

C22_PaidOnlyWhenSubmitted ==
    \A c \in PayingCalls :
        /\ After(c).err = "Ok" => PaysOnlySubmitted(c, After(c))
        /\ After(Reentered(c)).err = "Ok" =>
               PaysOnlySubmitted(c, After(Reentered(c)))

(***************************************************************************)
(* C23: resolve_dispute with decision = true and no milestone index pays   *)
(* every milestone that is Submitted at the start of the call exactly once *)
(* with exactly its own amount, sets exactly those milestones to Paid,     *)
(* increases amount_paid by the sum of their amounts, and leaves every     *)
(* milestone that was not Submitted unchanged.                             *)
(***************************************************************************)
BulkCalls ==
    {c \in ResolveCalls : c.decision /\ c.idx = NoIdx}

SubmittedIn(job) ==
    {i \in 1..Len(job.milestones) : job.milestones[i].state = "Submitted"}

PaymentsOf(x, id, i) ==
    {k \in 1..Len(x) : /\ x[k].tag.kind = "milestone"
                       /\ x[k].tag.job_id = id
                       /\ x[k].tag.idx = i - 1}

SubmittedSum(job) ==
    Sum([i \in 1..Len(job.milestones) |->
            IF i \in SubmittedIn(job) THEN job.milestones[i].amount ELSE 0])

BulkPays(c, r) ==
    LET old == Job(c.job_id)
        new == get_job(r.env, c.job_id)
        x == r.env.xfers
    IN  /\ \A i \in SubmittedIn(old) :
               /\ Cardinality(PaymentsOf(x, c.job_id, i)) = 1
               /\ \A k \in PaymentsOf(x, c.job_id, i) :
                      Moves(x[k], CONTRACT, old.talent,
                            old.milestones[i].amount)
               /\ new.milestones[i] =
                      [old.milestones[i] EXCEPT !.state = "Paid"]
        /\ \A i \in (1..Len(old.milestones)) \ SubmittedIn(old) :
               /\ PaymentsOf(x, c.job_id, i) = {}
               /\ new.milestones[i] = old.milestones[i]
        /\ Len(new.milestones) = Len(old.milestones)
        /\ \A k \in 1..Len(x) :
               x[k].tag.kind = "milestone" => x[k].tag.job_id = c.job_id
        /\ new.amount_paid = old.amount_paid + SubmittedSum(old)
        /\ r.env.balance[old.talent] =
               balance[old.talent] + SubmittedSum(old)
                   + (IF old.talent = c.caller THEN FeeOf(old) ELSE 0)

C23_BulkApprovalPaysSubmitted ==
    \A c \in BulkCalls :
        /\ After(c).err = "Ok" => BulkPays(c, After(c))
        /\ After(Reentered(c)).err = "Ok" =>
               BulkPays(c, After(Reentered(c)))

(* A bulk approval on a job with a Submitted first milestone and a second  *)
(* milestone that is not Submitted.                                        *)
C23_Witness ==
    \E c \in BulkCalls :
        /\ After(c).err = "Ok"
        /\ 1 \in SubmittedIn(Job(c.job_id))
        /\ Len(Job(c.job_id).milestones) = 2
        /\ 2 \notin SubmittedIn(Job(c.job_id))
        /\ Len(After(c).env.xfers) = 2

(* A bulk approval that pays two Submitted milestones. *)
C23_WitnessBoth ==
    \E c \in BulkCalls :
        /\ After(c).err = "Ok"
        /\ SubmittedIn(Job(c.job_id)) = {1, 2}

(***************************************************************************)
(* C24: in every reachable state of every job, dispute_raised_by and       *)
(* selected_arbitrator are both set when the job is Disputed and both      *)
(* unset when it is in any other state, also after cancel_job on a         *)
(* Disputed job.                                                           *)
(***************************************************************************)
C24_DisputeFieldsIffDisputed ==
    \A id \in JobIds :
        IF Job(id).state = "Disputed"
        THEN /\ Job(id).dispute_raised_by # NoAddress
             /\ Job(id).selected_arbitrator # NoAddress
        ELSE /\ Job(id).dispute_raised_by = NoAddress
             /\ Job(id).selected_arbitrator = NoAddress

(***************************************************************************)
(* C25: a job's escrow_balance increases in at most one step, the          *)
(* successful fund_job (Created to Funded); every other operation leaves   *)
(* escrow_balance equal or lower than before.                              *)
(***************************************************************************)
EscrowRisesOnlyByFunding ==
    \A id \in JobIds :
        LET old == JOBS[job_key(id)]
            new == JOBS'[job_key(id)]
        IN  new.escrow_balance > old.escrow_balance =>
                /\ old.state = "Created"
                /\ new.state = "Funded"
                /\ old.escrow_balance = 0
                /\ new.escrow_balance = old.total_value

C25_EscrowRisesOnlyByFunding == [][EscrowRisesOnlyByFunding]_vars

(***************************************************************************)
(* C26: for every job, in every reachable state, escrow_balance >= 0.      *)
(***************************************************************************)
C26_EscrowNonNegative ==
    \A id \in JobIds : Job(id).escrow_balance >= 0

(***************************************************************************)
(* C27: after every completed operation the tokens in the contract's       *)
(* custody equal the sum of escrow_balance over all jobs, and what a call  *)
(* transfers out of custody on behalf of a job never exceeds what that     *)
(* job still has in escrow, so one job's payouts never draw on another     *)
(* job's escrow.                                                           *)
(***************************************************************************)
EscrowSum ==
    Sum([id \in 1..JOB_CNT |-> Job(id).escrow_balance])

PaidFromCustody(x, id) ==
    Sum([k \in 1..Len(x) |->
            IF x[k].from = CONTRACT /\ x[k].tag.job_id = id
            THEN x[k].amount ELSE 0])

WithinOwnEscrow(c, r) ==
    \A id \in JobIds :
        PaidFromCustody(r.env.xfers, id) <= Job(id).escrow_balance

C27_CustodyIsEscrowSum ==
    /\ balance[CONTRACT] = EscrowSum
    /\ \A c \in JobCalls :
           After(c).err = "Ok" => WithinOwnEscrow(c, After(c))

(***************************************************************************)
(* C28: Completed and Cancelled are absorbing: once a job is in one of     *)
(* them, no operation by any caller changes any field of the job record    *)
(* or transfers tokens on its behalf.                                      *)
(***************************************************************************)
TerminalJobIds == {id \in JobIds : Terminal(Job(id))}

LeavesTerminalJobs(r) ==
    \A id \in TerminalJobIds :
        /\ has_job(r.env, id)
        /\ get_job(r.env, id) = Job(id)
        /\ \A k \in 1..Len(r.env.xfers) : r.env.xfers[k].tag.job_id # id

TerminalRefusesCalls ==
    \A c \in JobCalls :
        /\ LeavesTerminalJobs(After(c))
        /\ LeavesTerminalJobs(After(Reentered(c)))
        /\ c.job_id \in TerminalJobIds =>
               /\ After(c).err # "Ok" /\ Untouched(After(c))
               /\ After(Reentered(c)).err # "Ok"
               /\ Untouched(After(Reentered(c)))

TerminalKeptStep ==
    \A id \in TerminalJobIds :
        JOBS'[job_key(id)] = JOBS[job_key(id)]

C28_TerminalAbsorbing ==
    []TerminalRefusesCalls /\ [][TerminalKeptStep]_vars

(* A Completed job and a Cancelled job, each with a funded past, on which  *)
(* the client's cancel_job is refused.                                     *)
C28_Witness ==
    /\ \E id \in JobIds : Job(id).state = "Completed"
    /\ \E id \in JobIds : Job(id).state = "Cancelled" /\ Job(id).talent # NoAddress
    /\ \A id \in JobIds :
           \E c \in CancelCalls :
               /\ c.job_id = id
               /\ c.caller = Job(id).client
               /\ After(c).err = "JobCompleted"

(***************************************************************************)
(* C29: in every reachable state a job is Completed if and only if every   *)
(* one of its milestones is Paid: no job is Completed with an unpaid       *)
(* milestone, and no job is Active, Disputed or Cancelled with all         *)
(* milestones Paid.                                                        *)
(***************************************************************************)
C29_CompletedIffAllPaid ==
    \A id \in JobIds :
        Job(id).state = "Completed" <=> AllPaid(Job(id))

(* A Completed job with every milestone Paid next to a job that is not    *)
(* Completed and has one of its two milestones Paid.                       *)
C29_Witness ==
    /\ \E id \in JobIds :
           Job(id).state = "Completed" /\ AllPaid(Job(id))
    /\ \E id \in JobIds :
           /\ Job(id).state \in {"Active", "Disputed", "Cancelled"}
           /\ SomePaid(Job(id))
           /\ ~AllPaid(Job(id))
====
